---- MODULE Spec2Model ----
(***************************************************************************)
(* SettingsModal (frontend/src/components/settings-model/index.tsx):       *)
(* a React dialog holding a Field Set (inputElements), edited through      *)
(* updateValue and submitted by the async handler handleSubmit, which      *)
(* suspends at fetchSecret (install mode) and at sendRequest.              *)
(*                                                                         *)
(* JavaScript values are tagged records, so that a string, a number and a  *)
(* boolean stay different values:                                          *)
(*   [str |-> <<"a", ",">>]  a string, as the sequence of its characters   *)
(*   [num |-> 7]             a number                                      *)
(*   [bool |-> TRUE]         a boolean                                     *)
(*   [arr |-> <<v1, v2>>]    an array                                      *)
(*   [obj |-> <<[key |-> k, val |-> v], ...>>]  an object, its own         *)
(*                           properties in insertion order                 *)
(*   [null |-> TRUE], [undef |-> TRUE]                                     *)
(* A field descriptor (InputConfig) is a TLA+ record over the property     *)
(* names it has (value, type, required and, optionally, is_secret and      *)
(* placeholder).  A Field Set is the sequence of its [key, cfg] entries in *)
(* insertion order, which is the order for..in and Object.keys visit for   *)
(* keys that are not array indices (none of the keys used here is one).    *)
(***************************************************************************)
EXTENDS Integers, Sequences, FiniteSets

\* ------------------------------------------------------------- bounds

\* handleSubmit invocations (Save clicks) in one behaviour
MaxAttempts == 2
\* other events in one behaviour: onChange, Cancel/overlay/close clicks,
\* changes of the inputs and isOpen props
MaxEvents == 1
\* length of the generated list-field strings
MaxStrLen == 3

\* ------------------------------------------------------------- values

Str(s) == [str |-> s]
Num(n) == [num |-> n]
Bool(b) == [bool |-> b]
Arr(s) == [arr |-> s]
Obj(es) == [obj |-> es]
Null == [null |-> TRUE]
Undefined == [undef |-> TRUE]

IsStr(v) == DOMAIN v = {"str"}
IsNum(v) == DOMAIN v = {"num"}
IsBool(v) == DOMAIN v = {"bool"}

\* String.prototype.trim strips these from both ends (those of the model's
\* alphabet)
WhiteSpace == {" ", "\t"}

Digits == <<"0", "1", "2", "3", "4", "5", "6", "7", "8", "9">>

\* Number.prototype.toString for a non-negative integer
RECURSIVE NatToString(_)
NatToString(n) ==
    IF n < 10 THEN <<Digits[n + 1]>>
    ELSE NatToString(n \div 10) \o <<Digits[(n % 10) + 1]>>

\* value.toString() of a string | number | boolean
toString(v) ==
    IF IsStr(v) THEN v.str
    ELSE IF IsNum(v)
         THEN (IF v.num < 0 THEN <<"-">> \o NatToString(-v.num)
               ELSE NatToString(v.num))
    ELSE IF v.bool THEN <<"t", "r", "u", "e">>
    ELSE <<"f", "a", "l", "s", "e">>

\* String.prototype.trim: drop leading, then trailing whitespace
RECURSIVE TrimStart(_)
TrimStart(s) ==
    IF s # <<>> /\ Head(s) \in WhiteSpace THEN TrimStart(Tail(s)) ELSE s

RECURSIVE TrimEnd(_)
TrimEnd(s) ==
    IF s # <<>> /\ s[Len(s)] \in WhiteSpace
    THEN TrimEnd(SubSeq(s, 1, Len(s) - 1))
    ELSE s

Trim(s) == TrimEnd(TrimStart(s))

\* String.prototype.split(','): scan left to right, cutting at each comma;
\* cur is the segment being read, done the segments already cut
RECURSIVE SplitFrom(_, _, _)
SplitFrom(s, cur, done) ==
    IF s = <<>> THEN Append(done, cur)
    ELSE IF Head(s) = "," THEN SplitFrom(Tail(s), <<>>, Append(done, cur))
    ELSE SplitFrom(Tail(s), Append(cur, Head(s)), done)

Split(s) == SplitFrom(s, <<>>, <<>>)

\* Number(e.target.value) of a number input, whose value is "" or a run of
\* decimal digits: Number("") is 0
DigitValue(c) == CHOOSE d \in 0..9 : Digits[d + 1] = c

RECURSIVE ParseDigits(_, _)
ParseDigits(s, acc) ==
    IF s = <<>> THEN acc
    ELSE ParseDigits(Tail(s), 10 * acc + DigitValue(Head(s)))

ToNumber(s) == ParseDigits(s, 0)

\* !x for a string x: the empty string is the only falsy one
Falsy(s) == s = <<>>

\* ------------------------------------------------------------- objects

\* own property names, in order
Keys(es) == [i \in 1..Len(es) |-> es[i].key]

HasKey(es, k) == \E i \in 1..Len(es) : es[i].key = k

IndexOf(es, k) == CHOOSE i \in 1..Len(es) : es[i].key = k

\* obj[k] = v : an existing property keeps its place, a new one goes last
SetProp(es, k, v) ==
    IF HasKey(es, k)
    THEN [es EXCEPT ![IndexOf(es, k)] = [key |-> k, val |-> v]]
    ELSE Append(es, [key |-> k, val |-> v])

GetProp(es, k) == es[IndexOf(es, k)].val

\* { ...base, ...over } of two descriptors: over's properties win
Spread(base, over) ==
    [p \in (DOMAIN base) \cup (DOMAIN over) |->
        IF p \in DOMAIN over THEN over[p] ELSE base[p]]

\* ------------------------------------------------------------- Field Set

HasField(fs, k) == \E i \in 1..Len(fs) : fs[i].key = k

FieldIndex(fs, k) == CHOOSE i \in 1..Len(fs) : fs[i].key = k

\* inputElements[key], for a key that is present
Field(fs, k) == fs[FieldIndex(fs, k)].cfg

FieldKeys(fs) == {fs[i].key : i \in 1..Len(fs)}

\* ------------------------------------------------------------- component

VARIABLES
    modelType,      \* prop modelType
    botId,          \* prop botId (optional: Undefined when not passed)
    isOpen,         \* prop isOpen
    inputElements,  \* state: the Field Set
    attempts,       \* the invocations of handleSubmit, in click order
    closeLog,       \* the calls of the onClose prop, in call order
    pendingEffect,  \* the inputs prop of a committed render whose effect
                    \* (lines 29-31) has not run yet, or NoEffect
    events,         \* clicks, edits and prop changes other than Save so far
    lastChange      \* history: the arguments of the latest updateValue call

vars == <<modelType, botId, isOpen, inputElements, pendingEffect, attempts,
          closeLog, events, lastChange>>

\* a value of the inputs prop: Given(fs) for a Field Set, Null for none
Given(fs) == [given |-> fs]

\* useEffect(() => setInputElements(inputs || {}), [inputs])
initialize(inputs) == IF inputs = Null THEN <<>> ELSE inputs.given

\* mutant: the entry is rebuilt from the new value alone, {value: newValue}
updateValue_NoSpread(prevState, key, newValue) ==
    LET new == [key |-> key, cfg |-> [value |-> newValue]]
    IN  IF HasField(prevState, key)
        THEN [prevState EXCEPT ![FieldIndex(prevState, key)] = new]
        ELSE Append(prevState, new)

\* setInputElements(prevState => ({...prevState, [key]: {...prevState[key],
\* value: newValue}})); spreading an absent prevState[key] adds nothing
updateValue(prevState, key, newValue) ==
    LET old == IF HasField(prevState, key) THEN Field(prevState, key)
               ELSE <<>>
        new == [key |-> key, cfg |-> Spread(old, [value |-> newValue])]
    IN  IF HasField(prevState, key)
        THEN [prevState EXCEPT ![FieldIndex(prevState, key)] = new]
        ELSE Append(prevState, new)

getInputType(inputConfig) ==
    IF "is_secret" \in DOMAIN inputConfig /\ inputConfig.is_secret = TRUE
    THEN "password"
    ELSE IF inputConfig.type = "number" THEN "number" ELSE "text"

\* the value an onChange handler passes to updateValue for the typed text:
\* the textarea and the text/password inputs pass the string, the number
\* input passes Number(e.target.value)
onChangeValue(inputConfig, text) ==
    IF inputConfig.type = "text" THEN Str(text)
    ELSE IF getInputType(inputConfig) = "number" THEN Num(ToNumber(text))
    ELSE Str(text)

\* mutant: the test without .trim()
RequiredAndBlank_NoTrim(inputConfig) ==
    /\ inputConfig.required = TRUE
    /\ Falsy(toString(inputConfig.value))

\* inputElements[key].required === true &&
\* !inputElements[key].value.toString().trim()
RequiredAndBlank(inputConfig) ==
    /\ inputConfig.required = TRUE
    /\ Falsy(Trim(toString(inputConfig.value)))

\* mutant: the empty segments are filtered out
SplitAndTrim_DropEmpty(value) ==
    LET parts == Split(toString(value))
        trimmed == [i \in 1..Len(parts) |-> Str(Trim(parts[i]))]
    IN  Arr(SelectSeq(trimmed, LAMBDA t : t.str # <<>>))

\* value.toString().split(',').map(item => item.trim())
SplitAndTrim(value) ==
    LET parts == Split(toString(value))
    IN  Arr([i \in 1..Len(parts) |-> Str(Trim(parts[i]))])

RequiredAlert(key) == <<key, " is required">>

\* the credentials loop from its i-th field on: [alert |-> message] when it
\* returns early, [data |-> credentials] when it runs to the end
RECURSIVE CredentialsLoop(_, _, _)
CredentialsLoop(fs, i, credentials) ==
    IF i > Len(fs) THEN [data |-> credentials]
    ELSE IF RequiredAndBlank(fs[i].cfg)
         THEN [alert |-> RequiredAlert(fs[i].key)]
    ELSE CredentialsLoop(fs, i + 1,
                         SetProp(credentials, fs[i].key, fs[i].cfg.value))

\* mutant: the fields go to the top level of the body
BuildCredentials_Flat(fs) == CredentialsLoop(fs, 1, <<>>)

BuildCredentials(fs) ==
    LET r == CredentialsLoop(fs, 1, <<>>)
    IN  IF "alert" \in DOMAIN r THEN r
        ELSE [data |-> SetProp(<<>>, "credentials", Obj(r.data))]

\* mutant: whatsapp goes to the top level of the body
BuildActivate_Flat(fs) ==
    IF ~HasField(fs, "phone_number") THEN [throw |-> "TypeError"]
    ELSE IF RequiredAndBlank(Field(fs, "phone_number"))
         THEN [alert |-> <<"Phone number is required">>]
    ELSE IF ~HasField(fs, "whatsapp") THEN [throw |-> "TypeError"]
    ELSE IF RequiredAndBlank(Field(fs, "whatsapp"))
         THEN [alert |-> <<"Whatsapp Key is required">>]
    ELSE [data |-> SetProp(SetProp(<<>>, "phone_number",
                                   Field(fs, "phone_number").value),
                           "whatsapp", Field(fs, "whatsapp").value)]

\* the activate branch: reading .required of an absent field throws
BuildActivate(fs) ==
    IF ~HasField(fs, "phone_number") THEN [throw |-> "TypeError"]
    ELSE IF RequiredAndBlank(Field(fs, "phone_number"))
         THEN [alert |-> <<"Phone number is required">>]
    ELSE IF ~HasField(fs, "whatsapp") THEN [throw |-> "TypeError"]
    ELSE IF RequiredAndBlank(Field(fs, "whatsapp"))
         THEN [alert |-> <<"Whatsapp Key is required">>]
    ELSE LET d1 == SetProp(<<>>, "phone_number",
                           Field(fs, "phone_number").value)
             d2 == SetProp(d1, "channels", Obj(<<>>))
             ch == SetProp(GetProp(d2, "channels").obj, "whatsapp",
                           Field(fs, "whatsapp").value)
         IN  [data |-> SetProp(d2, "channels", Obj(ch))]

\* the install loop (after fetchSecret) from its i-th field on
RECURSIVE InstallLoop(_, _, _)
InstallLoop(fs, i, data) ==
    IF i > Len(fs) THEN [data |-> data]
    ELSE IF RequiredAndBlank(fs[i].cfg)
         THEN [alert |-> RequiredAlert(fs[i].key)]
    ELSE IF fs[i].cfg.type = "list"
         THEN InstallLoop(fs, i + 1,
                          SetProp(data, fs[i].key, SplitAndTrim(fs[i].cfg.value)))
    ELSE InstallLoop(fs, i + 1, SetProp(data, fs[i].key, fs[i].cfg.value))

\* mutant: the list branch continues before it stores the array
BuildInstall_DropsLists(fs) ==
    LET r == InstallLoop(fs, 1, <<>>)
    IN  IF "alert" \in DOMAIN r THEN r
        ELSE [data |-> SelectSeq(r.data, LAMBDA e : DOMAIN e.val # {"arr"})]

BuildInstall(fs) == InstallLoop(fs, 1, <<>>)

\* the template literals for apiEndpoint, as the sequence of their parts; an
\* undefined botId interpolates as "undefined"
APIHOST == "${VITE_SERVER_HOST}"

Interpolate(v) == IF v = Undefined THEN "undefined" ELSE v.str

ApiEndpoint(mode, bot) ==
    IF mode = "credentials"
    THEN <<APIHOST, "/v1/bot/", Interpolate(bot), "/configure">>
    ELSE IF mode = "activate"
    THEN <<APIHOST, "/v1/bot/", Interpolate(bot), "/activate">>
    ELSE IF mode = "install" THEN <<APIHOST, "/v1/bot/install">>
    ELSE <<>>

\* JSON.stringify(data): the text is represented by the value it encodes;
\* every data built here (strings, integers, booleans, arrays of strings,
\* nested objects) is read back from its JSON text unchanged
JSONStringify(data) == [json |-> Obj(data)]

NoRequest == [none |-> TRUE]

\* the argument of sendRequest
Request(url, accessToken, data) ==
    [url |-> url, method |-> "POST", accessToken |-> accessToken,
     body |-> JSONStringify(data),
     headers |-> <<[key |-> "Content-Type", val |-> "application/json"]>>]

\* ------------------------------------------------------------- inputs

Cfg(value, type, required) ==
    [value |-> value, type |-> type, required |-> required]

Entry(key, cfg) == [key |-> key, cfg |-> cfg]

\* the strings over {a , space} of length at most n
RECURSIVE StringsUpTo(_)
StringsUpTo(n) ==
    IF n = 0 THEN {<<>>}
    ELSE LET shorter == StringsUpTo(n - 1)
         IN  shorter \cup
             {Append(s, c) : s \in shorter, c \in {"a", ",", " "}}

ModelTypes == {"credentials", "activate", "install", "other"}

\* the values of the botId prop a caller passes in a mode: the install
\* endpoint names no bot
BotIds(mode) ==
    IF mode \in {"credentials", "activate"} THEN {Str("b1"), Undefined}
    ELSE {Undefined}

Tokens == {Str("tok")}

\* error?.body?.detail of a rejected sendRequest, as interpolated: a
\* rejection without a body interpolates as "undefined"
ErrorDetails == {"undefined"}

ListExample == <<"a", ",", " ", "b", " ", ",", "c">>

CredentialsInputs ==
    { Given(<<Entry("api_key", Spread(Cfg(Str(<<"x">>), "string", TRUE),
                                [is_secret |-> TRUE])),
        Entry("region", Spread(Cfg(Str(<<"y">>), "string", FALSE),
                               [placeholder |-> "eu"]))>>),
      Given(<<Entry("api_key", Cfg(Str(<<" ">>), "string", TRUE)),
        Entry("retries", Cfg(Num(0), "number", TRUE))>>),
      Given(<<Entry("notes", Cfg(Str(<<>>), "text", FALSE)),
        Entry("verbose", Cfg(Bool(FALSE), "boolean", TRUE))>>),
      Null }

ActivateInputs ==
    { Given(<<Entry("phone_number", Cfg(Str(<<"1", "2", "3">>), "string", TRUE)),
        Entry("whatsapp", Cfg(Str(<<"k", "e", "y", "1">>), "string", TRUE))>>),
      Given(<<Entry("phone_number", Cfg(Str(<<>>), "string", TRUE)),
        Entry("whatsapp", Cfg(Str(<<"k">>), "string", TRUE))>>),
      Given(<<Entry("whatsapp", Cfg(Str(<<" ">>), "string", TRUE)),
        Entry("phone_number", Cfg(Num(7), "number", FALSE))>>),
      Given(<<Entry("phone_number", Cfg(Str(<<"1">>), "string", TRUE)),
        Entry("whatsapp", Cfg(Str(<<"k">>), "string", TRUE)),
        Entry("email", Cfg(Str(<<>>), "string", TRUE))>>),
      Given(<<Entry("whatsapp", Cfg(Str(<<"k">>), "string", TRUE))>>),
      Given(<<Entry("phone_number", Cfg(Str(<<"1">>), "string", TRUE))>>) }

InstallInputs ==
    { Given(<<Entry("version", Cfg(Num(12), "number", TRUE)),
              Entry("tags", Cfg(Str(ListExample), "list", FALSE))>>),
      Given(<<Entry("tags", Cfg(Str(<<"a">>), "list", TRUE)),
              Entry("name", Cfg(Str(<<" ">>), "text", TRUE))>>) }

\* a list field holding each string of the alphabet in turn, and list
\* fields next to fields of the other types
ListInputs ==
    { Given(<<Entry("tags", Cfg(Str(s), "list", r))>>) :
        s \in StringsUpTo(MaxStrLen), r \in BOOLEAN }
    \cup
    { Given(<<Entry("name", Cfg(Str(<<"b", " ">>), "string", TRUE)),
              Entry("tags", Cfg(Str(ListExample), "list", FALSE)),
              Entry("debug", Cfg(Bool(TRUE), "boolean", FALSE)),
              Entry("notes", Cfg(Str(<<"a", ",", " ">>), "text", FALSE))>>),
      Given(<<Entry("ports", Cfg(Num(80), "list", TRUE)),
              Entry("version", Cfg(Num(12), "number", TRUE))>>) }

\* the values of the inputs prop a caller passes in a mode
InputsFor(mode) ==
    IF mode = "credentials" THEN CredentialsInputs
    ELSE IF mode = "activate" THEN ActivateInputs
    ELSE IF mode = "install" THEN InstallInputs
    ELSE {Given(<<Entry("name", Cfg(Str(<<>>), "string", TRUE))>>)}

\* the values the caller changes the inputs prop to
ReinitInputs(mode) ==
    IF mode = "credentials"
    THEN {Given(<<Entry("api_key", Cfg(Str(<<"z">>), "string", TRUE))>>)}
    ELSE IF mode = "activate"
    THEN {Given(<<Entry("phone_number", Cfg(Str(<<"9">>), "string", TRUE)),
            Entry("whatsapp", Cfg(Str(<<>>), "string", FALSE))>>)}
    ELSE IF mode = "install"
    THEN {Given(<<Entry("tags", Cfg(Str(<<"c", ",">>), "list", TRUE))>>)}
    ELSE {Null}

\* what a user types into a text, password or textarea widget
TypedTexts == {<<" ">>, <<"u", ",", "v">>}

\* what a number input reports as its value
NumberTexts == {<<>>, <<"4", "2">>}

TextsFor(inputConfig) ==
    IF inputConfig.type # "text" /\ getInputType(inputConfig) = "number"
    THEN NumberTexts
    ELSE TypedTexts

\* ------------------------------------------------------------- handleSubmit

\* one invocation of handleSubmit: where it stands (pc), the inputElements
\* its closure holds, the accessToken local, the argument it passed to
\* sendRequest and the alerts it has shown
\*   pc: "fetchSecret"  suspended at await fetchSecret()
\*       "sendRequest"  suspended at await sendRequest(...)
\*       "returned"     returned early after an alert
\*       "threw"        ended by an uncaught TypeError
\*       "resolved"     sendRequest resolved and line 107 ran
\*       "rejected"     sendRequest rejected and the catch block ran
\* stale is history: when fetchSecret resolved, the component's Field Set
\* was no longer the one the invocation's closure holds
NewAttempt(fs) ==
    [pc |-> "start", inputElements |-> fs, accessToken |-> Null,
     request |-> NoRequest, alerts |-> <<>>, stale |-> FALSE]

\* lines 52-96 after any fetchSecret: the body for the mode, or the early exit
BuildBody(mode, fs) ==
    IF mode = "credentials" THEN BuildCredentials(fs)
    ELSE IF mode = "activate" THEN BuildActivate(fs)
    ELSE IF mode = "install" THEN BuildInstall(fs)
    ELSE [data |-> <<>>]

\* mutant: handleSubmit reads the component's current state
ClosureFieldSet_Current(att) == inputElements

\* the Field Set the running handleSubmit reads: the one of the render whose
\* Save button was clicked
ClosureFieldSet(att) == att.inputElements

\* validation, body and the call of sendRequest (lines 52-75, 85-106)
ValidateAndSend(att) ==
    LET r == BuildBody(modelType, ClosureFieldSet(att))
    IN  IF "throw" \in DOMAIN r THEN [att EXCEPT !.pc = "threw"]
        ELSE IF "alert" \in DOMAIN r
        THEN [att EXCEPT !.pc = "returned", !.alerts = Append(@, r.alert)]
        ELSE [att EXCEPT !.pc = "sendRequest",
                         !.request = Request(ApiEndpoint(modelType, botId),
                                             att.accessToken, r.data)]

\* onClick of the Save button: handleSubmit runs up to its first await
handleSubmit ==
    /\ isOpen
    /\ Len(attempts) < MaxAttempts
    /\ attempts' = Append(attempts,
            IF modelType = "install"
            THEN [NewAttempt(inputElements) EXCEPT !.pc = "fetchSecret"]
            ELSE ValidateAndSend(NewAttempt(inputElements)))
    /\ UNCHANGED <<modelType, botId, isOpen, inputElements, pendingEffect,
                   closeLog, events, lastChange>>

\* await fetchSecret() resolves with a token: lines 85-106
FetchSecretResolved(att, token) ==
    ValidateAndSend([att EXCEPT !.accessToken = token])

fetchSecretResolves(a, token) ==
    /\ attempts[a].pc = "fetchSecret"
    /\ attempts' = [attempts EXCEPT ![a] =
            FetchSecretResolved(
                [@ EXCEPT !.stale = (inputElements # attempts[a].inputElements)],
                                token)]
    /\ UNCHANGED <<modelType, botId, isOpen, inputElements, pendingEffect,
                   closeLog, events, lastChange>>

\* mutant: the catch block does not return
FetchSecretRejected_Continues(att) ==
    ValidateAndSend([att EXCEPT !.alerts =
                        Append(@, <<"Failed to fetch the access token">>)])

\* await fetchSecret() rejects: lines 80-84
FetchSecretRejected(att) ==
    [att EXCEPT !.pc = "returned",
                !.alerts = Append(@, <<"Failed to fetch the access token">>)]

fetchSecretRejects(a) ==
    /\ attempts[a].pc = "fetchSecret"
    /\ attempts' = [attempts EXCEPT ![a] = FetchSecretRejected(@)]
    /\ UNCHANGED <<modelType, botId, isOpen, inputElements, pendingEffect,
                   closeLog, events, lastChange>>

\* mutant: onClose is called twice
CloseCallsOnSuccess_Twice(a) ==
    <<[by |-> "handleSubmit", attempt |-> a],
      [by |-> "handleSubmit", attempt |-> a]>>

\* the calls of onClose a resolved sendRequest is followed by (line 107)
CloseCallsOnSuccess(a) == <<[by |-> "handleSubmit", attempt |-> a]>>

\* mutant: onClose is called in a finally block
CloseCallsOnFailure_Finally(a) == <<[by |-> "handleSubmit", attempt |-> a]>>

\* the calls of onClose the catch block makes (lines 108-111): none
CloseCallsOnFailure(a) == <<>>

sendRequestResolves(a) ==
    /\ attempts[a].pc = "sendRequest"
    /\ attempts' = [attempts EXCEPT ![a].pc = "resolved"]
    /\ closeLog' = closeLog \o CloseCallsOnSuccess(a)
    /\ UNCHANGED <<modelType, botId, isOpen, inputElements, pendingEffect,
                   events, lastChange>>

ServerAlert(detail) ==
    <<"Error from server \"", detail, "\". Please try again.">>

sendRequestRejects(a, detail) ==
    /\ attempts[a].pc = "sendRequest"
    /\ attempts' = [attempts EXCEPT ![a].pc = "rejected",
                                    ![a].alerts = Append(@, ServerAlert(detail))]
    /\ closeLog' = closeLog \o CloseCallsOnFailure(a)
    /\ UNCHANGED <<modelType, botId, isOpen, inputElements, pendingEffect,
                   events, lastChange>>

\* ------------------------------------------------------------- other events

\* onClick of the overlay, the close button or the Cancel button
clickClose ==
    /\ isOpen
    /\ events < MaxEvents
    /\ closeLog' = Append(closeLog, [by |-> "button", attempt |-> 0])
    /\ events' = events + 1
    /\ UNCHANGED <<modelType, botId, isOpen, inputElements, pendingEffect,
                   attempts, lastChange>>

NoChange == [none |-> TRUE]

\* onChange of the widget of a rendered field
onChange(key, text) ==
    /\ isOpen
    /\ events < MaxEvents
    /\ LET newValue == onChangeValue(Field(inputElements, key), text)
       IN  /\ inputElements' = updateValue(inputElements, key, newValue)
           /\ lastChange' = [key |-> key, newValue |-> newValue,
                             at |-> events + 1]
    /\ events' = events + 1
    /\ UNCHANGED <<modelType, botId, isOpen, pendingEffect, attempts,
                   closeLog>>

NoEffect == [none |-> TRUE]

\* the caller passes a new inputs prop: the render reads the Field Set as
\* it is (line 26) and leaves the effect of lines 29-31 to run.  When the
\* effect of the render before is still pending, React's scheduling decides
\* whether its setInputElements is part of this render: it is on a legacy
\* root, and it is skipped by a render of higher priority on a concurrent
\* root, where the Field Set stays as it was and the newer effect's update
\* supersedes the skipped one.  Both outcomes are behaviours.
inputsChange(inputs) ==
    /\ events < MaxEvents
    /\ inputElements' \in
            IF pendingEffect = NoEffect THEN {inputElements}
            ELSE {inputElements, initialize(pendingEffect.inputs)}
    /\ pendingEffect' = [inputs |-> inputs]
    /\ events' = events + 1
    /\ UNCHANGED <<modelType, botId, isOpen, attempts, closeLog, lastChange>>

\* the pending effect runs: setInputElements(inputs || {})
runEffect ==
    /\ pendingEffect # NoEffect
    /\ inputElements' = initialize(pendingEffect.inputs)
    /\ pendingEffect' = NoEffect
    /\ UNCHANGED <<modelType, botId, isOpen, attempts, closeLog, events,
                   lastChange>>

\* the caller shows or hides the dialog
setIsOpen(open) ==
    /\ isOpen # open
    /\ events < MaxEvents
    /\ isOpen' = open
    /\ events' = events + 1
    /\ UNCHANGED <<modelType, botId, inputElements, pendingEffect, attempts,
                   closeLog, lastChange>>

\* the first render, committed: useState({}) gives the empty Field Set and
\* the effect that seeds it from the inputs prop is still to run; events
\* that arrive before it find the empty Field Set
Init ==
    /\ modelType \in ModelTypes
    /\ botId \in BotIds(modelType)
    /\ isOpen = TRUE
    /\ inputElements = <<>>
    /\ \E inputs \in InputsFor(modelType) : pendingEffect = [inputs |-> inputs]
    /\ attempts = <<>>
    /\ closeLog = <<>>
    /\ events = 0
    /\ lastChange = NoChange

\* the events, each over the values its arguments can take
SecretArrives ==
    \E a \in 1..Len(attempts), token \in Tokens : fetchSecretResolves(a, token)

SecretFails == \E a \in 1..Len(attempts) : fetchSecretRejects(a)

ResponseArrives == \E a \in 1..Len(attempts) : sendRequestResolves(a)

ResponseFails ==
    \E a \in 1..Len(attempts), detail \in ErrorDetails :
        sendRequestRejects(a, detail)

Edit ==
    \E key \in FieldKeys(inputElements) :
        \E text \in TextsFor(Field(inputElements, key)) : onChange(key, text)

Reseed == \E inputs \in ReinitInputs(modelType) : inputsChange(inputs)

Toggle == \E open \in BOOLEAN : setIsOpen(open)

Next ==
    \/ handleSubmit
    \/ SecretArrives
    \/ SecretFails
    \/ ResponseArrives
    \/ ResponseFails
    \/ clickClose
    \/ Edit
    \/ Reseed
    \/ runEffect
    \/ Toggle

Spec == Init /\ [][Next]_vars

\* install mode over every list string: the mount and the submissions alone
InitList ==
    /\ modelType = "install"
    /\ botId \in BotIds(modelType)
    /\ isOpen = TRUE
    /\ inputElements = <<>>
    /\ \E inputs \in ListInputs : pendingEffect = [inputs |-> inputs]
    /\ attempts = <<>>
    /\ closeLog = <<>>
    /\ events = 0
    /\ lastChange = NoChange

NextList ==
    \/ handleSubmit
    \/ SecretArrives
    \/ SecretFails
    \/ ResponseArrives
    \/ ResponseFails
    \/ runEffect

SpecList == InitList /\ [][NextList]_vars

\* ------------------------------------------------------------- properties

Attempts == 1..Len(attempts)

\* sendRequest has been called by the invocation
Sent(att) == att.request # NoRequest

\* the object handed to JSON.stringify, as its entries
DataOf(att) == att.request.body.json.obj

\* the string is empty or whitespace only
AllBlank(s) == \A i \in 1..Len(s) : s[i] \in WhiteSpace

BlankRequired(cfg) == cfg.required = TRUE /\ AllBlank(toString(cfg.value))

SomeBlankRequired(fs) == \E i \in 1..Len(fs) : BlankRequired(fs[i].cfg)

HasBothActivateFields(fs) ==
    HasField(fs, "phone_number") /\ HasField(fs, "whatsapp")

FetchFailedAlert == <<"Failed to fetch the access token">>

\* the invocation stopped at an alert without calling sendRequest, or is
\* still waiting for the token
AbortedWithAlert(att) ==
    /\ ~Sent(att)
    /\ att.pc \in {"fetchSecret", "returned"}
    /\ att.pc = "returned" => Len(att.alerts) = 1

\* the data model's assumption: an activate Field Set has the two well-known
\* keys
WellKnownKeysPresent(fs) ==
    modelType = "activate" => HasBothActivateFields(fs)

\* C1, as stated: in every mode, a Save click on a Field Set in which any
\* field is required and blank aborts with an alert and never calls
\* sendRequest (stated for the Field Sets that have the keys their mode
\* assumes).
C1_AnyBlankRequiredAborts ==
    \A a \in Attempts :
        /\ modelType \in {"credentials", "activate", "install"}
        /\ WellKnownKeysPresent(attempts[a].inputElements)
        /\ SomeBlankRequired(attempts[a].inputElements)
        => AbortedWithAlert(attempts[a])

\* C1, amended: in credentials and install mode a Save click on a Field Set
\* in which any field is required and blank aborts with an alert and never
\* calls sendRequest; in activate mode this holds when the blank required
\* field is phone_number or whatsapp and both are present.
C1_ValidatedBlankRequiredAborts ==
    \A a \in Attempts :
        LET fs == attempts[a].inputElements
        IN  \/ /\ modelType \in {"credentials", "install"}
               /\ SomeBlankRequired(fs)
            \/ /\ modelType = "activate"
               /\ HasBothActivateFields(fs)
               /\ \/ BlankRequired(Field(fs, "phone_number"))
                  \/ BlankRequired(Field(fs, "whatsapp"))
            => AbortedWithAlert(attempts[a])

\* an activate invocation found the whitespace-only required whatsapp and
\* returned at its alert without a request
C1_Witness ==
    \E a \in Attempts :
        /\ modelType = "activate"
        /\ HasBothActivateFields(attempts[a].inputElements)
        /\ Field(attempts[a].inputElements, "whatsapp").value = Str(<<" ">>)
        /\ attempts[a].pc = "returned"
        /\ attempts[a].alerts = <<<<"Whatsapp Key is required">>>>
        /\ ~Sent(attempts[a])

CloseCallsBy(a) ==
    Cardinality({i \in 1..Len(closeLog) :
                    closeLog[i] = [by |-> "handleSubmit", attempt |-> a]})

\* C2: handleSubmit calls onClose exactly once for each invocation whose
\* sendRequest resolved and never for another one, however the invocations
\* and the clicks interleave; a Cancel/overlay/close click calls onClose
\* itself and starts no invocation and no sendRequest.
C2_CloseOncePerSuccess ==
    /\ [](/\ \A a \in Attempts :
               CloseCallsBy(a) = IF attempts[a].pc = "resolved" THEN 1 ELSE 0
          /\ \A i \in 1..Len(closeLog) :
               closeLog[i].by = "handleSubmit" => closeLog[i].attempt \in Attempts)
    /\ [][(/\ Len(closeLog') > Len(closeLog)
           /\ closeLog'[Len(closeLog')].by = "button")
          => /\ closeLog' = Append(closeLog, [by |-> "button", attempt |-> 0])
             /\ attempts' = attempts]_vars

\* the second submission was started while the first was in flight and has
\* closed the dialog; the first is still in flight; a Cancel click came too
C2_Witness ==
    /\ Len(attempts) = 2
    /\ attempts[1].pc = "sendRequest"
    /\ attempts[2].pc = "resolved"
    /\ closeLog = <<[by |-> "button", attempt |-> 0],
                    [by |-> "handleSubmit", attempt |-> 2]>>

\* C3: the step in which a sendRequest rejects adds one alert to that
\* invocation, calls onClose for nobody, and leaves isOpen and the Field Set
\* as they were.
C3_RejectKeepsDialog ==
    [][\A a \in Attempts :
          (attempts[a].pc = "sendRequest" /\ attempts'[a].pc = "rejected")
          => /\ Len(attempts'[a].alerts) = Len(attempts[a].alerts) + 1
             /\ closeLog' = closeLog
             /\ isOpen' = isOpen
             /\ inputElements' = inputElements]_vars

\* after a rejected submission the dialog is open, nothing was closed, and
\* the user has submitted the same Field Set again
C3_Witness ==
    /\ Len(attempts) = 2
    /\ attempts[1].pc = "rejected"
    /\ Len(attempts[1].alerts) = 1
    /\ attempts[2].pc = "sendRequest"
    /\ attempts[2].inputElements = attempts[1].inputElements
    /\ isOpen
    /\ closeLog = <<>>

\* the body has a value for every key of the Field Set, in the mode's shape
BodyCoversFieldSet(mode, data, fs) ==
    IF mode = "credentials"
    THEN /\ HasKey(data, "credentials")
         /\ \A k \in FieldKeys(fs) : HasKey(GetProp(data, "credentials").obj, k)
    ELSE IF mode = "install"
    THEN \A k \in FieldKeys(fs) : HasKey(data, k)
    ELSE \A k \in FieldKeys(fs) :
            \/ k # "whatsapp" /\ HasKey(data, k)
            \/ /\ k = "whatsapp"
               /\ HasKey(data, "channels")
               /\ HasKey(GetProp(data, "channels").obj, k)

\* the invocation has run the code that builds the body
PastBuild(att) ==
    /\ att.pc # "fetchSecret"
    /\ att.alerts # <<FetchFailedAlert>>

\* C4, as stated: in every mode, when no required field is blank, building
\* the body does not abort and the body has a value for every key of the
\* Field Set (stated for the Field Sets that have the keys their mode
\* assumes).
C4_BodyCoversEveryField ==
    \A a \in Attempts :
        LET att == attempts[a]
        IN  /\ modelType \in {"credentials", "activate", "install"}
            /\ WellKnownKeysPresent(att.inputElements)
            /\ ~SomeBlankRequired(att.inputElements)
            /\ PastBuild(att)
            => /\ Sent(att)
               /\ BodyCoversFieldSet(modelType, DataOf(att), att.inputElements)

\* C4, amended: when no required field is blank, in credentials and install
\* mode building the body does not abort and the body has a value for every
\* key of the Field Set; in activate mode, when phone_number and whatsapp
\* are both present, it does not abort and the body has values for these
\* two fields only (phone_number, channels.whatsapp).
C4_BodyCoversModeFields ==
    \A a \in Attempts :
        LET att == attempts[a]
            fs == att.inputElements
        IN  /\ ~SomeBlankRequired(fs)
            /\ PastBuild(att)
            => /\ modelType \in {"credentials", "install"}
                  => /\ Sent(att)
                     /\ BodyCoversFieldSet(modelType, DataOf(att), fs)
               /\ (modelType = "activate" /\ HasBothActivateFields(fs))
                  => /\ Sent(att)
                     /\ Keys(DataOf(att)) = <<"phone_number", "channels">>
                     /\ Keys(GetProp(DataOf(att), "channels").obj)
                           = <<"whatsapp">>

\* an activate body built from a Field Set of three fields, none blank:
\* it has the two well-known fields and not the third
C4_Witness ==
    \E a \in Attempts :
        /\ modelType = "activate"
        /\ Sent(attempts[a])
        /\ Len(attempts[a].inputElements) = 3
        /\ ~SomeBlankRequired(attempts[a].inputElements)
        /\ Keys(DataOf(attempts[a])) = <<"phone_number", "channels">>

\* new is old with the value of field key replaced by v and nothing else
\* changed
SameButValue(old, new, key, v) ==
    /\ Len(new) = Len(old)
    /\ \A i \in 1..Len(old) :
          /\ new[i].key = old[i].key
          /\ IF old[i].key = key
             THEN /\ new[i].cfg.value = v
                  /\ DOMAIN new[i].cfg = DOMAIN old[i].cfg
                  /\ \A p \in (DOMAIN old[i].cfg) \ {"value"} :
                        new[i].cfg[p] = old[i].cfg[p]
             ELSE new[i].cfg = old[i].cfg

\* C5: updateValue(key, newValue) on a key of the Field Set keeps the keys,
\* gives the named field the new value, and leaves its other metadata and
\* every other field as they were.
C5_UpdateValueFrame ==
    [][lastChange' # lastChange
       => /\ HasField(inputElements, lastChange'.key)
          /\ SameButValue(inputElements, inputElements', lastChange'.key,
                          lastChange'.newValue)]_vars

\* the secret field of a two-field set was edited: it holds the typed text
\* and is still secret, required and of type string
C5_Witness ==
    /\ lastChange # NoChange
    /\ lastChange.key = "api_key"
    /\ Len(inputElements) = 2
    /\ HasField(inputElements, "region")
    /\ Field(inputElements, "api_key")
          = [value |-> Str(<<"u", ",", "v">>), type |-> "string",
             required |-> TRUE, is_secret |-> TRUE]
    /\ Field(inputElements, "region").value = Str(<<"y">>)

\* the positions of the commas of s, and the k-th of them (0 before the
\* first, Len(s) + 1 after the last)
CommaPositions(s) == {i \in 1..Len(s) : s[i] = ","}

Cut(s, k) ==
    IF k = 0 THEN 0
    ELSE IF k > Cardinality(CommaPositions(s)) THEN Len(s) + 1
    ELSE CHOOSE p \in CommaPositions(s) :
            Cardinality({q \in CommaPositions(s) : q < p}) = k - 1

\* t is piece without its leading and trailing whitespace
IsTrimOf(t, piece) ==
    \E lo \in 1..(Len(piece) + 1), hi \in 0..Len(piece) :
        /\ t = SubSeq(piece, lo, hi)
        /\ \A i \in 1..(lo - 1) : piece[i] \in WhiteSpace
        /\ \A i \in (hi + 1)..Len(piece) : piece[i] \in WhiteSpace
        /\ lo <= hi => piece[lo] \notin WhiteSpace /\ piece[hi] \notin WhiteSpace
        /\ lo > hi => lo = hi + 1

\* v is the array of the trimmed comma-separated segments of s, one per
\* comma plus one, in order, the empty ones kept
IsSplitTrimOf(v, s) ==
    /\ DOMAIN v = {"arr"}
    /\ Len(v.arr) = Cardinality(CommaPositions(s)) + 1
    /\ \A k \in 1..Len(v.arr) :
          /\ DOMAIN v.arr[k] = {"str"}
          /\ IsTrimOf(v.arr[k].str,
                      SubSeq(s, Cut(s, k - 1) + 1, Cut(s, k) - 1))

\* C6: in install mode the body holds, for a field of type list, the
\* trimmed comma-separated segments of the string form of its value ("a, b
\* ,c" gives ["a","b","c"]), and for any other field its value unchanged.
C6_ListSplitTrim ==
    \A a \in Attempts :
        (modelType = "install" /\ Sent(attempts[a]))
        => \A i \in 1..Len(attempts[a].inputElements) :
              LET f == attempts[a].inputElements[i]
                  data == DataOf(attempts[a])
              IN  /\ HasKey(data, f.key)
                  /\ IF f.cfg.type = "list"
                     THEN IsSplitTrimOf(GetProp(data, f.key),
                                        toString(f.cfg.value))
                     ELSE GetProp(data, f.key) = f.cfg.value
                  /\ (f.cfg.type = "list" /\ f.cfg.value = Str(ListExample))
                     => GetProp(data, f.key)
                           = Arr(<<Str(<<"a">>), Str(<<"b">>), Str(<<"c">>)>>)

\* the example was sent next to a string, a boolean and a text field that
\* went through unsplit and untrimmed
C6_Witness ==
    \E a \in Attempts :
        /\ Sent(attempts[a])
        /\ Len(attempts[a].inputElements) = 4
        /\ GetProp(DataOf(attempts[a]), "tags")
              = Arr(<<Str(<<"a">>), Str(<<"b">>), Str(<<"c">>)>>)
        /\ GetProp(DataOf(attempts[a]), "name") = Str(<<"b", " ">>)
        /\ GetProp(DataOf(attempts[a]), "notes") = Str(<<"a", ",", " ">>)
        /\ GetProp(DataOf(attempts[a]), "debug") = Bool(TRUE)

\* C7: in activate mode, a Field Set holding phone_number and whatsapp with
\* non-empty values is posted to the activate endpoint of the bot id, with
\* the body { phone_number: <value>, channels: { whatsapp: <value> } } and
\* nothing else.
C7_ActivateBody ==
    \A a \in Attempts :
        LET att == attempts[a]
            fs == att.inputElements
        IN  /\ modelType = "activate"
            /\ HasBothActivateFields(fs)
            /\ ~AllBlank(toString(Field(fs, "phone_number").value))
            /\ ~AllBlank(toString(Field(fs, "whatsapp").value))
            => /\ Sent(att)
               /\ DataOf(att)
                     = <<[key |-> "phone_number",
                          val |-> Field(fs, "phone_number").value],
                         [key |-> "channels",
                          val |-> Obj(<<[key |-> "whatsapp",
                                         val |-> Field(fs, "whatsapp").value]>>)]>>
               /\ att.request.method = "POST"
               /\ botId # Undefined
                  => att.request.url
                        = <<APIHOST, "/v1/bot/", botId.str, "/activate">>

\* phone_number "123" and whatsapp "key1" were sent for bot b1
C7_Witness ==
    \E a \in Attempts :
        /\ modelType = "activate"
        /\ botId = Str("b1")
        /\ Sent(attempts[a])
        /\ attempts[a].request.url = <<APIHOST, "/v1/bot/", "b1", "/activate">>
        /\ DataOf(attempts[a])
              = <<[key |-> "phone_number", val |-> Str(<<"1", "2", "3">>)],
                  [key |-> "channels",
                   val |-> Obj(<<[key |-> "whatsapp",
                                  val |-> Str(<<"k", "e", "y", "1">>)]>>)]>>

\* C8: in credentials mode, a Field Set that passes validation is posted to
\* the configure endpoint of the bot id with the body { credentials: C },
\* where C has exactly the Field Set's keys, each with its field's value
\* untouched.
C8_CredentialsBody ==
    \A a \in Attempts :
        LET att == attempts[a]
            fs == att.inputElements
        IN  (modelType = "credentials" /\ ~SomeBlankRequired(fs))
            => /\ Sent(att)
               /\ Keys(DataOf(att)) = <<"credentials">>
               /\ LET C == GetProp(DataOf(att), "credentials")
                  IN  /\ DOMAIN C = {"obj"}
                      /\ Len(C.obj) = Len(fs)
                      /\ \A i \in 1..Len(fs) :
                            C.obj[i] = [key |-> fs[i].key,
                                        val |-> fs[i].cfg.value]
               /\ att.request.method = "POST"
               /\ botId # Undefined
                  => att.request.url
                        = <<APIHOST, "/v1/bot/", botId.str, "/configure">>

\* api_key "x" and region "y" were sent for bot b1
C8_Witness ==
    \E a \in Attempts :
        /\ modelType = "credentials"
        /\ botId = Str("b1")
        /\ Sent(attempts[a])
        /\ attempts[a].request.url = <<APIHOST, "/v1/bot/", "b1", "/configure">>
        /\ DataOf(attempts[a])
              = <<[key |-> "credentials",
                   val |-> Obj(<<[key |-> "api_key", val |-> Str(<<"x">>)],
                                 [key |-> "region", val |-> Str(<<"y">>)]>>)]>>

\* C9: an install invocation calls sendRequest only once fetchSecret has
\* given it a token, and passes that token; credentials and activate
\* requests carry none; an invocation whose fetchSecret failed shows the
\* one generic alert and then neither validates, sends nor closes.
C9_InstallTokenFirst ==
    \A a \in Attempts :
        LET att == attempts[a]
        IN  /\ Sent(att)
               => IF modelType = "install"
                  THEN /\ att.accessToken \in Tokens
                       /\ att.request.accessToken = att.accessToken
                  ELSE att.request.accessToken = Null
            /\ att.pc = "fetchSecret" => ~Sent(att) /\ att.alerts = <<>>
            /\ (\E i \in 1..Len(att.alerts) : att.alerts[i] = FetchFailedAlert)
               => /\ att.pc = "returned"
                  /\ att.alerts = <<FetchFailedAlert>>
                  /\ att.accessToken = Null
                  /\ ~Sent(att)
                  /\ CloseCallsBy(a) = 0

\* one install invocation stopped at the failed fetchSecret, though its
\* Field Set has a blank required field; another sent its token
C9_Witness ==
    \E a, b \in Attempts :
        /\ modelType = "install"
        /\ attempts[a].alerts = <<FetchFailedAlert>>
        /\ attempts[a].pc = "returned"
        /\ Sent(attempts[b])
        /\ attempts[b].request.accessToken = Str("tok")

\* the first field that is required and blank
FirstBlankRequired(fs) ==
    fs[CHOOSE i \in 1..Len(fs) :
          /\ BlankRequired(fs[i].cfg)
          /\ \A j \in 1..(i - 1) : ~BlankRequired(fs[j].cfg)].key

\* C10: what an install invocation validates and sends once it has its
\* token is decided by the Field Set of the render whose Save was clicked,
\* whatever the component's Field Set has become in the meantime.
C10_BodyFromClickedFieldSet ==
    \A a \in Attempts :
        LET att == attempts[a]
            fs == att.inputElements
        IN  (modelType = "install" /\ att.accessToken # Null)
            => IF SomeBlankRequired(fs)
               THEN /\ att.pc = "returned"
                    /\ ~Sent(att)
                    /\ att.alerts = <<RequiredAlert(FirstBlankRequired(fs))>>
               ELSE /\ Sent(att)
                    /\ Keys(DataOf(att)) = Keys(fs)
                    /\ \A i \in 1..Len(fs) :
                          IF fs[i].cfg.type = "list"
                          THEN IsSplitTrimOf(DataOf(att)[i].val,
                                             toString(fs[i].cfg.value))
                          ELSE DataOf(att)[i].val = fs[i].cfg.value

\* tags was edited to "u,v" while fetchSecret was pending: the component
\* showed the edit when the invocation resumed, the body has the old list
C10_Witness ==
    \E a \in Attempts :
        /\ modelType = "install"
        /\ Sent(attempts[a])
        /\ HasField(attempts[a].inputElements, "tags")
        /\ attempts[a].stale
        /\ Field(attempts[a].inputElements, "tags").value = Str(ListExample)
        /\ lastChange # NoChange
        /\ lastChange.key = "tags"
        /\ lastChange.newValue = Str(<<"u", ",", "v">>)
        /\ GetProp(DataOf(attempts[a]), "tags")
              = Arr(<<Str(<<"a">>), Str(<<"b">>), Str(<<"c">>)>>)

====
